---- MODULE Spec2Model ----
(***************************************************************************)
(* DioramaCast (src/app.py): a Flask gateway with a weather route          *)
(* (rate limit -> response cache -> handler), an image-generation route    *)
(* (rate limit -> handler) and a metrics route (rate limit -> handler).    *)
(*                                                                         *)
(* Text is modelled as a sequence of one-character strings, so that        *)
(* float(), len(), str.capitalize() and f-string formatting are computed   *)
(* character by character.  A number is a pair (n, d) standing for n/d     *)
(* with d a power of ten.  Time is in seconds.                             *)
(***************************************************************************)
EXTENDS Integers, Sequences, FiniteSets, TLC

VARIABLES
    WEATHER_API_KEY,  \* src/app.py:28, read once at import
    GEMINI_API_KEY,   \* src/app.py:29, read once at import
    now,              \* wall clock, seconds
    storage,          \* the limiter's counters: key -> [count, expiry]
    cache,            \* the response cache: key -> [expires, rv]
    resp,             \* the last HTTP exchange: request and response
    admits,           \* per scope (client, route), the times of the requests
                      \* admitted within the route's shortest period
    admitted,         \* per running counter, the requests admitted since it opened
    answered,         \* per weather query, the last reply built from upstream
    posted,           \* per body, the image requests the limiter has let through
    generated,        \* the calls of client.models.generate_content so far
    greenlets         \* the requests in progress, each in a greenlet of the worker

vars == <<WEATHER_API_KEY, GEMINI_API_KEY, now, storage, cache, resp, admits,
          admitted, answered, posted, generated, greenlets>>

(***************************************************************************)
(* Text helpers                                                            *)
(***************************************************************************)
Digits == <<"0", "1", "2", "3", "4", "5", "6", "7", "8", "9">>

LowerAlpha == <<"a", "b", "c", "d", "e", "f", "g", "h", "i", "j", "k", "l", "m",
                "n", "o", "p", "q", "r", "s", "t", "u", "v", "w", "x", "y", "z">>

UpperAlpha == <<"A", "B", "C", "D", "E", "F", "G", "H", "I", "J", "K", "L", "M",
                "N", "O", "P", "Q", "R", "S", "T", "U", "V", "W", "X", "Y", "Z">>

Range(s) == {s[i] : i \in DOMAIN s}

\* the first index of c in s, 0 when there is none
IndexOf(s, c) ==
    IF \E i \in DOMAIN s : s[i] = c
    THEN CHOOSE i \in DOMAIN s : s[i] = c /\ \A j \in 1..(i - 1) : s[j] # c
    ELSE 0

IsDigit(c) == c \in Range(Digits)

DigitVal(c) == IndexOf(Digits, c) - 1

AllDigits(s) == \A i \in DOMAIN s : IsDigit(s[i])

RECURSIVE DigitsVal(_)
DigitsVal(s) ==
    IF s = <<>> THEN 0
    ELSE DigitsVal(SubSeq(s, 1, Len(s) - 1)) * 10 + DigitVal(s[Len(s)])

RECURSIVE Pow10(_)
Pow10(n) == IF n = 0 THEN 1 ELSE 10 * Pow10(n - 1)

ToLower(c) == IF c \in Range(UpperAlpha) THEN LowerAlpha[IndexOf(UpperAlpha, c)] ELSE c

ToUpper(c) == IF c \in Range(LowerAlpha) THEN UpperAlpha[IndexOf(LowerAlpha, c)] ELSE c

Lower(s) == [i \in DOMAIN s |-> ToLower(s[i])]

\* str.capitalize(): first character upper-cased, the rest lower-cased
Capitalize(s) == [i \in DOMAIN s |-> IF i = 1 THEN ToUpper(s[i]) ELSE ToLower(s[i])]

RECURSIVE LStrip(_)
LStrip(s) == IF s # <<>> /\ s[1] = " " THEN LStrip(Tail(s)) ELSE s

RECURSIVE RStrip(_)
RStrip(s) ==
    IF s # <<>> /\ s[Len(s)] = " " THEN RStrip(SubSeq(s, 1, Len(s) - 1)) ELSE s

Strip(s) == RStrip(LStrip(s))

\* n copies of the character c
Rep(c, n) == [i \in 1..n |-> c]

RECURSIVE NatToText(_)
NatToText(n) ==
    IF n < 10 THEN <<Digits[n + 1]>>
    ELSE NatToText(n \div 10) \o <<Digits[(n % 10) + 1]>>

(***************************************************************************)
(* Numbers.  Num(n, d) is n/d; NaN and the infinities are kinds of their   *)
(* own, as in an IEEE double.                                              *)
(***************************************************************************)
Num(n, d) == [kind |-> "num", n |-> n, d |-> d]
NaN == [kind |-> "nan", n |-> 0, d |-> 1]
Inf(sign) == [kind |-> "inf", n |-> sign, d |-> 1]
BadFloat == [kind |-> "error", n |-> 0, d |-> 1]

\* lo <= x <= hi for integer lo, hi, as the chained comparison evaluates it:
\* every comparison with NaN is false
Between(lo, x, hi) ==
    /\ x.kind = "num"
    /\ lo * x.d <= x.n
    /\ x.n <= hi * x.d

\* the mantissa "123", "12.5", ".5", "5." as Num, or BadFloat
ParseMantissa(s) ==
    LET dot == IndexOf(s, ".")
        ip == IF dot = 0 THEN s ELSE SubSeq(s, 1, dot - 1)
        fp == IF dot = 0 THEN <<>> ELSE SubSeq(s, dot + 1, Len(s))
    IN IF AllDigits(ip) /\ AllDigits(fp) /\ Len(ip) + Len(fp) > 0
       THEN Num(DigitsVal(ip \o fp), Pow10(Len(fp)))
       ELSE BadFloat

\* the exponent digits "2", "+2", "-2" as [ok, neg, val]
ParseExponent(s) ==
    LET signed == s # <<>> /\ s[1] \in {"+", "-"}
        ds == IF signed THEN Tail(s) ELSE s
    IN [ok |-> ds # <<>> /\ AllDigits(ds),
        neg |-> signed /\ s[1] = "-",
        val |-> IF ds # <<>> /\ AllDigits(ds) THEN DigitsVal(ds) ELSE 0]

\* Python's float(str): surrounding blanks stripped, an optional sign, then
\* nan / inf / infinity in any case, or digits with an optional fraction and
\* an optional exponent.  BadFloat stands for ValueError.
ParseFloat(s) ==
    LET t == Strip(s)
        signed == t # <<>> /\ t[1] \in {"+", "-"}
        sgn == IF signed /\ t[1] = "-" THEN -1 ELSE 1
        u == IF signed THEN Tail(t) ELSE t
        lu == Lower(u)
        e == IndexOf(lu, "e")
        m == ParseMantissa(IF e = 0 THEN u ELSE SubSeq(u, 1, e - 1))
        x == ParseExponent(IF e = 0 THEN <<"0">> ELSE SubSeq(u, e + 1, Len(u)))
    IN IF lu = <<"n", "a", "n">> THEN NaN
       ELSE IF lu \in {<<"i", "n", "f">>, <<"i", "n", "f", "i", "n", "i", "t", "y">>}
       THEN Inf(sgn)
       ELSE IF m.kind = "error" \/ ~x.ok THEN BadFloat
       ELSE IF x.neg THEN Num(sgn * m.n, m.d * Pow10(x.val))
       ELSE Num(sgn * m.n * Pow10(x.val), m.d)

\* Python's round(x) of a finite number: to the nearest integer, ties to even
Round(x) ==
    LET q == x.n \div x.d
        r == x.n % x.d
    IN IF 2 * r < x.d THEN q
       ELSE IF 2 * r > x.d THEN q + 1
       ELSE IF q % 2 = 0 THEN q ELSE q + 1

(***************************************************************************)
(* JSON values: a tag t and a value v.  A dict is a function from keys to  *)
(* JSON values, a list a sequence of JSON values, a string a text.         *)
(***************************************************************************)
JNull == [t |-> "null", v |-> <<>>]
JStr(s) == [t |-> "str", v |-> s]
JInt(n) == [t |-> "int", v |-> Num(n, 1)]
JFloat(n, d) == [t |-> "float", v |-> Num(n, d)]
JBool(b) == [t |-> "bool", v |-> b]
JList(xs) == [t |-> "list", v |-> xs]
JDict(f) == [t |-> "dict", v |-> f]

\* a Python exception in place of a value
Raise(name) == [t |-> "raise", v |-> name]

\* dict.get(k, default) on a JSON dict
DictGet(obj, k, default) == IF k \in DOMAIN obj.v THEN obj.v[k] ELSE default

\* Python truthiness of a JSON value (`not data` is its negation)
Truthy(x) ==
    CASE x.t = "null" -> FALSE
      [] x.t = "bool" -> x.v
      [] x.t \in {"int", "float"} -> x.v.n # 0
      [] x.t \in {"str", "list"} -> Len(x.v) > 0
      [] x.t = "dict" -> DOMAIN x.v # {}
      [] OTHER -> TRUE

\* A formatted text (an f-string or a literal): a sequence of parts, each a
\* literal of the source or a substituted text
Lit(s) == [lit |-> s, sub |-> <<>>]
Sub(text) == [lit |-> "", sub |-> text]
JText(parts) == [t |-> "text", v |-> parts]

\* jsonify({'error': message}): a response body
ErrorBody(message) == "error" :> JText(<<Lit(message)>>)

Response(status, body, calls, stage) ==
    [status |-> status, body |-> body, calls |-> calls, stage |-> stage]

(***************************************************************************)
(* GET /api/weather: the handler, src/app.py:143-201                       *)
(***************************************************************************)
\* request.args.get(name): None when the parameter is missing
Arg(text) == [present |-> TRUE, text |-> text]
NoArg == [present |-> FALSE, text |-> <<>>]

\* `not lat`: None or the empty string
Falsy(arg) == ~arg.present \/ arg.text = <<>>

\* the range check with its bounds left out: -90 < lat < 90, -180 < lon < 180
CoordinatesValid_exclusive(lat, lon) ==
    LET lat_val == ParseFloat(lat.text)
        lon_val == ParseFloat(lon.text)
    IN /\ lat_val.kind = "num"
       /\ lon_val.kind = "num"
       /\ -90 * lat_val.d < lat_val.n /\ lat_val.n < 90 * lat_val.d
       /\ -180 * lon_val.d < lon_val.n /\ lon_val.n < 180 * lon_val.d

\* src/app.py:153-160: both parse and lie in range, else ValueError
CoordinatesValid(lat, lon) ==
    LET lat_val == ParseFloat(lat.text)
        lon_val == ParseFloat(lon.text)
    IN /\ lat_val.kind # "error"
       /\ lon_val.kind # "error"
       /\ ~(~Between(-90, lat_val, 90) \/ ~Between(-180, lon_val, 180))

\* round(value): TypeError unless the value is a number
PyRound(x) ==
    IF x.t \in {"int", "float"} /\ x.v.kind = "num" THEN JInt(Round(x.v))
    ELSE IF x.t = "bool" THEN JInt(IF x.v THEN 1 ELSE 0)
    ELSE Raise("TypeError")

\* data[k].get(f, default): KeyError when the section is missing
SubGet_strict(data, k, f, default) ==
    IF k \notin DOMAIN data.v THEN Raise("KeyError")
    ELSE IF data.v[k].t = "dict" THEN DictGet(data.v[k], f, default)
    ELSE Raise("AttributeError")

\* data.get(k, {}).get(f, default): AttributeError unless data[k] is a dict
SubGet(data, k, f, default) ==
    LET sub == DictGet(data, k, JDict(<<>>))
    IN IF sub.t = "dict" THEN DictGet(sub, f, default) ELSE Raise("AttributeError")

\* data.get('weather', [{}])[0].get(f, default)
FirstWeatherGet(data, f, default) ==
    LET w == DictGet(data, "weather", JList(<<JDict(<<>>)>>))
    IN IF w.t # "list" THEN Raise("TypeError")
       ELSE IF w.v = <<>> THEN Raise("IndexError")
       ELSE IF w.v[1].t # "dict" THEN Raise("AttributeError")
       ELSE DictGet(w.v[1], f, default)

PyCapitalize(x) ==
    IF x.t = "str" THEN JStr(Capitalize(x.v))
    ELSE IF x.t = "raise" THEN x
    ELSE Raise("AttributeError")

PyRoundOf(x) == IF x.t = "raise" THEN x ELSE PyRound(x)

\* src/app.py:177-187: the nine output fields from the upstream document
weather_data(data) ==
    ("location" :> DictGet(data, "name", JStr(<<"U", "n", "k", "n", "o", "w", "n">>)))
    @@ ("country" :> SubGet(data, "sys", "country", JStr(<<>>)))
    @@ ("temperature" :> PyRoundOf(SubGet(data, "main", "temp", JInt(0))))
    @@ ("feels_like" :> PyRoundOf(SubGet(data, "main", "feels_like", JInt(0))))
    @@ ("humidity" :> SubGet(data, "main", "humidity", JInt(0)))
    @@ ("description" :> PyCapitalize(FirstWeatherGet(data, "description", JStr(<<>>))))
    @@ ("icon" :> FirstWeatherGet(data, "icon", JStr(<<"0", "1", "d">>)))
    @@ ("wind_speed" :> PyRoundOf(SubGet(data, "wind", "speed", JInt(0))))
    @@ ("pressure" :> SubGet(data, "main", "pressure", JInt(0)))

\* an upstream outcome of session.get(url, timeout=10): a reply with a status
\* and a body, requests.Timeout, or another requests.RequestException
Reply(status, json) == [kind |-> "reply", status |-> status, json |-> json]
Timeout == [kind |-> "timeout", status |-> 0, json |-> JNull]
ConnectionError == [kind |-> "connection", status |-> 0, json |-> JNull]

\* what response.json() cannot decode
NotJson == Raise("JSONDecodeError")

\* response.raise_for_status(): HTTPError for a 4xx or 5xx status
RaisesForStatus(status) == 400 <= status /\ status < 600

\* src/app.py:166-201: the call and what is made of its outcome
fetch_weather(out) ==
    IF out.kind = "timeout"
    THEN Response(504, ErrorBody("Weather service timeout, please try again"), 1, "call")
    ELSE IF out.kind = "connection"
    THEN Response(500, ErrorBody("Failed to fetch weather data, please try again"), 1, "call")
    ELSE IF RaisesForStatus(out.status)
    THEN Response(502, "error" :> JText(<<Lit("Weather service error: "),
                                          Sub(NatToText(out.status))>>), 1, "call")
    ELSE IF out.json.t = "raise"
    THEN Response(500, ErrorBody("Failed to fetch weather data, please try again"), 1, "call")
    ELSE IF out.json.t # "dict"
    THEN Response(500, ErrorBody("An unexpected error occurred"), 1, "call")
    ELSE LET wd == weather_data(out.json)
         IN IF \E f \in DOMAIN wd : wd[f].t = "raise"
            THEN Response(500, ErrorBody("An unexpected error occurred"), 1, "call")
            ELSE Response(200, wd, 1, "done")

\* the handler with the key looked at before the coordinates
get_weather_key_first(lat, lon, key, out) ==
    IF key = ""
    THEN Response(500, ErrorBody("Weather API key not configured"), 0, "credential")
    ELSE IF Falsy(lat) \/ Falsy(lon)
    THEN Response(400, ErrorBody("Latitude and longitude required"), 0, "validation")
    ELSE IF ~CoordinatesValid(lat, lon)
    THEN Response(400, ErrorBody("Invalid latitude or longitude values"), 0, "validation")
    ELSE fetch_weather(out)

\* src/app.py:143-201
get_weather(lat, lon, key, out) ==
    IF Falsy(lat) \/ Falsy(lon)
    THEN Response(400, ErrorBody("Latitude and longitude required"), 0, "validation")
    ELSE IF ~CoordinatesValid(lat, lon)
    THEN Response(400, ErrorBody("Invalid latitude or longitude values"), 0, "validation")
    ELSE IF key = ""
    THEN Response(500, ErrorBody("Weather API key not configured"), 0, "credential")
    ELSE fetch_weather(out)

(***************************************************************************)
(* POST /api/generate-image: the handler, src/app.py:205-320               *)
(***************************************************************************)
\* float(value) of a JSON value: TypeError for None, a list or a dict,
\* ValueError for a text that is no number
PyFloat(x) ==
    CASE x.t \in {"int", "float"} -> x.v
      [] x.t = "bool" -> Num(IF x.v THEN 1 ELSE 0, 1)
      [] x.t = "str" -> ParseFloat(x.v)
      [] OTHER -> BadFloat

\* the digits of n/d after the point, trailing zeros dropped, one kept
RECURSIVE FracText(_, _)
FracText(r, d) ==
    IF d = 1 THEN <<>>
    ELSE IF r = 0 THEN <<>>
    ELSE <<Digits[((r * 10) \div d) + 1]>> \o FracText((r * 10) % d, d)

\* repr of a float n/d
FloatText(x) ==
    LET a == IF x.n < 0 THEN -x.n ELSE x.n
        f == FracText(a % x.d, x.d)
    IN (IF x.n < 0 THEN <<"-">> ELSE <<>>)
       \o NatToText(a \div x.d) \o <<".">> \o (IF f = <<>> THEN <<"0">> ELSE f)

\* str(value), as an f-string substitutes it
PyStr(x) ==
    CASE x.t = "str" -> x.v
      [] x.t = "int" -> (IF x.v.n < 0 THEN <<"-">> \o NatToText(-x.v.n) ELSE NatToText(x.v.n))
      [] x.t = "float" -> FloatText(x.v)
      [] x.t = "bool" -> (IF x.v THEN <<"T", "r", "u", "e">> ELSE <<"F", "a", "l", "s", "e">>)
      [] x.t = "null" -> <<"N", "o", "n", "e">>
      [] OTHER -> <<"?">>

MonthName == <<"January", "February", "March", "April", "May", "June", "July",
               "August", "September", "October", "November", "December">>

\* datetime.now().strftime("%B %d, %Y")
FormatDate(date) ==
    <<Lit(MonthName[date.month]), Lit(" "),
      Sub((IF date.day < 10 THEN <<"0">> ELSE <<>>) \o NatToText(date.day)),
      Lit(", "), Sub(NatToText(date.year))>>

\* src/app.py:238-249
build_prompt(location, weather, temperature, current_date) ==
    JText(<<Lit("Present a clear, 45° top-down isometric miniature 3D cartoon scene of "),
            Sub(PyStr(location)),
            Lit(", featuring its most iconic landmarks and architectural elements. "),
            Lit("Use soft, refined textures with realistic PBR materials and gentle, lifelike lighting and shadows. "),
            Lit("Integrate "),
            Sub(PyStr(weather)),
            Lit(" weather directly into the city environment to create an immersive atmospheric mood. "),
            Lit("Use a clean, minimalistic composition with a soft, solid-colored background. "),
            Lit("At the top-center, place the title \""),
            Sub(PyStr(location)),
            Lit("\" in large bold text, "),
            Lit("a prominent weather icon beneath it, then the date (")>>
          \o FormatDate(current_date)
          \o <<Lit(") (small text) "),
               Lit("and temperature ("),
               Sub(PyStr(temperature)),
               Lit("°C) (medium text). "),
               Lit("All text must be centered with consistent spacing, and may subtly overlap the tops of the buildings. "),
               Lit("Square "), Lit("1000x1000"), Lit(" dimension")>>)

Base64Alphabet ==
    UpperAlpha \o LowerAlpha \o Digits \o <<"+", "/">>

\* base64.b64encode(bytes).decode('utf-8'): three bytes to four characters,
\* the last group padded with "="
RECURSIVE Base64(_)
Base64(bytes) ==
    IF bytes = <<>> THEN <<>>
    ELSE LET n == IF Len(bytes) >= 3 THEN 3 ELSE Len(bytes)
             b1 == bytes[1]
             b2 == IF n >= 2 THEN bytes[2] ELSE 0
             b3 == IF n >= 3 THEN bytes[3] ELSE 0
             w == b1 * 65536 + b2 * 256 + b3
         IN <<Base64Alphabet[(w \div 262144) + 1],
              Base64Alphabet[((w \div 4096) % 64) + 1],
              IF n >= 2 THEN Base64Alphabet[((w \div 64) % 64) + 1] ELSE "=",
              IF n >= 3 THEN Base64Alphabet[(w % 64) + 1] ELSE "=">>
            \o Base64(SubSeq(bytes, n + 1, Len(bytes)))

\* what client.models.generate_content(...) does: raises, or returns a
\* response with a list of candidates; a candidate has a content (or none)
\* with a list of parts; a part has inline data (or none)
ProviderRaises(text) == [kind |-> "raise", text |-> text, candidates |-> <<>>]
ProviderReturns(candidates) == [kind |-> "response", text |-> <<>>, candidates |-> candidates]
Candidate(parts) == [content |-> TRUE, parts |-> parts]
BlockedCandidate == [content |-> FALSE, parts |-> <<>>]
ImagePart(mime_type, data) == [inline_data |-> TRUE, mime_type |-> mime_type, data |-> data]
TextPart == [inline_data |-> FALSE, mime_type |-> <<>>, data |-> <<>>]

\* the failure with the provider's text written into the prompt it returns
GenerationFailed_annotated(prompt, text) ==
    Response(500,
             ("error" :> JText(<<Lit("Failed to generate image: "), Sub(text)>>))
             @@ ("prompt" :> JText(prompt.v \o <<Sub(text)>>))
             @@ ("message" :> JText(<<Lit("Check API key configuration and model availability")>>)),
             1, "call")

GenerationFailed(prompt, text) ==
    Response(500,
             ("error" :> JText(<<Lit("Failed to generate image: "), Sub(text)>>))
             @@ ("prompt" :> prompt)
             @@ ("message" :> JText(<<Lit("Check API key configuration and model availability")>>)),
             1, "call")

\* src/app.py:261-320: the provider call and what is made of its outcome
generate_scene(prompt, out) ==
    IF out.kind = "raise" THEN GenerationFailed(prompt, out.text)
    ELSE IF out.candidates = <<>>
    THEN GenerationFailed(prompt, <<"l", "i", "s", "t", " ", "i", "n", "d", "e", "x">>)
    ELSE IF ~out.candidates[1].content
    THEN GenerationFailed(prompt, <<"N", "o", "n", "e", "T", "y", "p", "e">>)
    ELSE IF out.candidates[1].parts = <<>>
    THEN GenerationFailed(prompt, <<"l", "i", "s", "t", " ", "i", "n", "d", "e", "x">>)
    ELSE LET image_part == out.candidates[1].parts[1]
             image_url ==
                 IF image_part.inline_data
                 THEN JText(<<Lit("data:"), Sub(image_part.mime_type), Lit(";base64,"),
                              Sub(Base64(image_part.data))>>)
                 ELSE JNull
         IN Response(200,
                     ("image_url" :> image_url)
                     @@ ("prompt" :> prompt)
                     @@ ("message" :> JText(<<Lit("Image generation successful")>>)),
                     1, "done")

\* request.get_json(): the parsed JSON value, or BadRequest /
\* UnsupportedMediaType for an empty body, a body that is no JSON, or a
\* content type that is not JSON
BadBody == Raise("BadRequest")

\* the validation with the lengths and the temperature cut one short
FieldsValid_short(location, weather, temperature) ==
    /\ ~(location.t # "str" \/ Len(location.v) > 99)
    /\ ~(weather.t # "str" \/ Len(weather.v) > 99)
    /\ PyFloat(temperature).kind # "error"
    /\ ~(~Between(-99, PyFloat(temperature), 99))

\* src/app.py:223-232
FieldsValid(location, weather, temperature) ==
    /\ ~(location.t # "str" \/ Len(location.v) > 100)
    /\ ~(weather.t # "str" \/ Len(weather.v) > 100)
    /\ PyFloat(temperature).kind # "error"
    /\ ~(~Between(-100, PyFloat(temperature), 100))

InvalidField(location, weather, temperature) ==
    IF location.t # "str" \/ Len(location.v) > 100 THEN "Invalid location parameter"
    ELSE IF weather.t # "str" \/ Len(weather.v) > 100 THEN "Invalid weather parameter"
    ELSE "Invalid temperature parameter"

\* src/app.py:217-219: what stands in for a missing field
DefaultLocation == JStr(<<"u", "n", "k", "n", "o", "w", "n", " ", "l", "o", "c", "a", "t", "i", "o", "n">>)

DefaultWeather == JStr(<<"c", "l", "e", "a", "r", " ", "s", "k", "y">>)

DefaultTemperature == JInt(20)

\* src/app.py:251-259: no key configured
placeholder(prompt) ==
    Response(200,
             ("image_url" :> JText(<<Lit("https://via.placeholder.com/1000x1000.png?text=Configure+API+Key")>>))
             @@ ("prompt" :> prompt)
             @@ ("message" :> JText(<<Lit("Gemini API key not configured. This is a placeholder.")>>)),
             0, "placeholder")

\* src/app.py:343-350: the answer to an exception that escapes a view
handle_exception ==
    Response(500,
             ("error" :> JText(<<Lit("An unexpected error occurred")>>))
             @@ ("message" :> JText(<<Lit("Please try again later")>>)),
             0, "unhandled")

\* src/app.py:205-320; data.get on a value that is no dict raises
\* AttributeError outside every try
generate_image(data, key, current_date, out) ==
    IF data.t = "raise"
    THEN Response(400, ErrorBody("Invalid JSON data"), 0, "body")
    ELSE IF ~Truthy(data)
    THEN Response(400, ErrorBody("No data provided"), 0, "body")
    ELSE IF data.t # "dict"
    THEN handle_exception
    ELSE LET location == DictGet(data, "location", DefaultLocation)
             weather == DictGet(data, "weather", DefaultWeather)
             temperature == DictGet(data, "temperature", DefaultTemperature)
             settings == DictGet(data, "settings", JDict(<<>>))
             prompt == build_prompt(location, weather, temperature, current_date)
         IN IF ~FieldsValid(location, weather, temperature)
            THEN Response(400, ErrorBody(InvalidField(location, weather, temperature)),
                          0, "validation")
            ELSE IF key = ""
            THEN placeholder(prompt)
            ELSE generate_scene(prompt, out)

(***************************************************************************)
(* Rate limiting, src/app.py:59-67: Flask-Limiter keyed by the remote      *)
(* address, strategy "fixed-window".  A counter is opened by the first hit *)
(* and expires one period later; a hit is allowed while the counter is at  *)
(* most the amount.  A route's own limits replace the default limits.      *)
(***************************************************************************)
Limit(amount, period) == [amount |-> amount, period |-> period]

\* the image route with one more request a minute
RouteLimits_lenient(route) ==
    CASE route = "/api/weather" -> <<Limit(30, 60)>>
      [] route = "/api/generate-image" -> <<Limit(3, 60), Limit(10, 3600)>>
      [] route = "/metrics" -> <<Limit(10, 60)>>
      [] route = "/" -> <<Limit(50, 60), Limit(200, 3600)>>
      [] OTHER -> <<>>

\* the limits of a route, shortest period first (the order they are tested in)
RouteLimits(route) ==
    CASE route = "/api/weather" -> <<Limit(30, 60)>>
      [] route = "/api/generate-image" -> <<Limit(2, 60), Limit(10, 3600)>>
      [] route = "/metrics" -> <<Limit(10, 60)>>
      [] route = "/" -> <<Limit(50, 60), Limit(200, 3600)>>
      [] OTHER -> <<>>

LimitKey(client, route, limit) == <<client, route, limit.period>>

\* the counter of a key at time t, 0 when there is none or it has expired
LiveCount(st, key, t) ==
    IF key \in DOMAIN st /\ st[key].expiry > t THEN st[key].count ELSE 0

\* storage.incr(key, expiry): one more hit on the key at time t
Incr(st, key, period, t) ==
    LET live == key \in DOMAIN st /\ st[key].expiry > t
        entry == IF live
                 THEN [count |-> st[key].count + 1, expiry |-> st[key].expiry]
                 ELSE [count |-> 1, expiry |-> t + period]
    IN [k \in DOMAIN st \cup {key} |-> IF k = key THEN entry ELSE st[k]]

\* limiter.hit for each limit in turn, stopping at the first breach
RECURSIVE HitLimits(_, _, _, _, _)
HitLimits(st, client, route, limits, t) ==
    IF limits = <<>> THEN [storage |-> st, allowed |-> TRUE]
    ELSE LET key == LimitKey(client, route, Head(limits))
             st2 == Incr(st, key, Head(limits).period, t)
         IN IF st2[key].count <= Head(limits).amount
            THEN HitLimits(st2, client, route, Tail(limits), t)
            ELSE [storage |-> st2, allowed |-> FALSE]

check_request_limit(st, client, route, t) ==
    HitLimits(st, client, route, RouteLimits(route), t)

\* src/app.py:323-330
ratelimit_handler ==
    Response(429,
             ("error" :> JText(<<Lit("Rate limit exceeded")>>))
             @@ ("message" :> JText(<<Lit("Too many requests. Please try again later.")>>)),
             0, "limiter")

(***************************************************************************)
(* Response cache, src/app.py:44-57 and the decorator at src/app.py:142:   *)
(* the view's return value is stored under the request's query string for  *)
(* 300 seconds, whatever its status.                                       *)
(***************************************************************************)
CacheTimeout == 300

\* query_string=True: the key is made of the sorted query parameters
make_cache_key(lat, lon) == <<lat, lon>>

CacheHas(c, key, t) == key \in DOMAIN c /\ c[key].expires > t

\* an entry that is kept for twice the timeout
CacheSet_twice(c, key, rv, t) ==
    [k \in DOMAIN c \cup {key} |->
        IF k = key THEN [expires |-> t + 2 * CacheTimeout, rv |-> rv] ELSE c[k]]

CacheSet(c, key, rv, t) ==
    [k \in DOMAIN c \cup {key} |->
        IF k = key THEN [expires |-> t + CacheTimeout, rv |-> rv] ELSE c[k]]

(***************************************************************************)
(* after_request, src/app.py:124-133                                       *)
(***************************************************************************)
\* frames refused altogether
add_security_headers_deny(headers) ==
    ("X-Content-Type-Options" :> "nosniff")
    @@ ("X-Frame-Options" :> "DENY")
    @@ ("X-XSS-Protection" :> "1; mode=block")
    @@ ("Strict-Transport-Security" :> "max-age=31536000; includeSubDomains")
    @@ ("Content-Security-Policy" :> "default-src 'self' https:; script-src 'self' 'unsafe-inline' https://unpkg.com https://cdn.jsdelivr.net; style-src 'self' 'unsafe-inline' https://unpkg.com https://cdn.jsdelivr.net; img-src 'self' data: https: blob:; connect-src 'self' https:;")
    @@ headers

\* the five headers are set on the response, over what it carried
add_security_headers(headers) ==
    ("X-Content-Type-Options" :> "nosniff")
    @@ ("X-Frame-Options" :> "SAMEORIGIN")
    @@ ("X-XSS-Protection" :> "1; mode=block")
    @@ ("Strict-Transport-Security" :> "max-age=31536000; includeSubDomains")
    @@ ("Content-Security-Policy" :> "default-src 'self' https:; script-src 'self' 'unsafe-inline' https://unpkg.com https://cdn.jsdelivr.net; style-src 'self' 'unsafe-inline' https://unpkg.com https://cdn.jsdelivr.net; img-src 'self' data: https: blob:; connect-src 'self' https:;")
    @@ headers

\* the headers of a response as the view or the error handler made it
ContentType(r) ==
    "Content-Type" :> (IF r.stage = "template" THEN "text/html; charset=utf-8"
                       ELSE "application/json")

(***************************************************************************)
(* Bounds of the model                                                     *)
(***************************************************************************)
\* the clock stops here
MaxTime == 330
\* requests a client may still send to a route whose limit it has reached
MaxRejected == 1
\* hits a client may have in a running window while another client has more
MaxLight == 1
\* the clock stops here on the routes that have a per-minute limit only
MaxShort == 60
\* requests in progress at a time in one worker
MaxGreenlets == 2
\* requests one client sends within a minute in the weather traffic
MaxBurst == 3

(***************************************************************************)
(* Inputs                                                                  *)
(***************************************************************************)
Clients == {"10.0.0.1", "10.0.0.2"}

Keys == {"", "secret"}

Dates == {[year |-> 2026, month |-> 11, day |-> 6], [year |-> 2027, month |-> 1, day |-> 15]}

LatTexts ==
    {<<>>, <<"4", "0", ".", "7", "1", "2", "8">>, <<"0">>, <<"9", "0">>, <<"-", "9", "0">>, <<"9", "0", ".", "0">>, <<"+", "9", "0">>, <<"9", "e", "1">>, <<" ", "4", "5", " ">>, <<"9", "0", ".", "1">>, <<"-", "9", "0", ".", "5">>, <<"9", "1">>, <<"-", "9", "1">>, <<"1", "e", "2">>, <<"i", "n", "v", "a", "l", "i", "d">>, <<"4", " ", "5">>, <<"n", "a", "n">>, <<"i", "n", "f">>, <<"1", ".", "2", ".", "3">>, <<"-", "-", "5">>}

LonTexts ==
    {<<>>, <<"-", "7", "4", ".", "0", "0", "6", "0">>, <<"1", "8", "0">>, <<"-", "1", "8", "0">>, <<"1", "8", "0", ".", "0">>, <<"1", "8", "1">>, <<"-", "1", "8", "0", ".", "0", "1">>, <<"-", "1", "8", "1">>, <<"a", "b", "c">>, <<"N", "a", "N">>, <<"1", "8", "e", "1">>}

Lats == {NoArg} \cup {Arg(x) : x \in LatTexts}

Lons == {NoArg} \cup {Arg(x) : x \in LonTexts}

\* upstream weather documents
FullDocument(name, temp) ==
    JDict(("name" :> JStr(name))
          @@ ("sys" :> JDict("country" :> JStr(<<"U", "S">>)))
          @@ ("main" :> JDict(("temp" :> temp) @@ ("feels_like" :> JFloat(-25, 10))
                              @@ ("humidity" :> JInt(65)) @@ ("pressure" :> JInt(1013))))
          @@ ("weather" :> JList(<<JDict(("description" :> JStr(<<"c", "l", "e", "a", "r", " ", "s", "k", "y">>))
                                         @@ ("icon" :> JStr(<<"0", "1", "n">>)))>>))
          @@ ("wind" :> JDict("speed" :> JFloat(35, 10))))

DocumentA == FullDocument(<<"N", "e", "w", " ", "Y", "o", "r", "k">>, JFloat(215, 10))

DocumentB == FullDocument(<<"P", "a", "r", "i", "s">>, JFloat(-5, 10))

\* a field of a JSON object, left out or with one of the values
Optional(name, values) == {<<>>} \cup {name :> x : x \in values}

\* upstream documents with any subset of the sections, and of the fields
\* of a section, left out
PartialDocuments ==
    LET main == ("temp" :> JFloat(215, 10)) @@ ("feels_like" :> JFloat(-25, 10))
                @@ ("humidity" :> JInt(65)) @@ ("pressure" :> JInt(1013))
        first == ("description" :> JStr(<<"c", "l", "e", "a", "r", " ", "s", "k", "y">>))
                 @@ ("icon" :> JStr(<<"0", "1", "n">>))
    IN {JDict(n @@ sy @@ m @@ w @@ wd) :
           n \in Optional("name", {JStr(<<"O", "s", "l", "o">>)}),
           sy \in Optional("sys", {JDict(<<>>), JDict("country" :> JStr(<<"N", "O">>))}),
           m \in Optional("main", {JDict([f \in fs |-> main[f]]) : fs \in SUBSET DOMAIN main}),
           w \in Optional("weather",
                          {JList(<<JDict([f \in fs |-> first[f]])>>) : fs \in SUBSET DOMAIN first}),
           wd \in Optional("wind", {JDict(<<>>), JDict("speed" :> JFloat(35, 10))})}

WeatherOutcomes ==
    {Timeout, ConnectionError,
     Reply(200, DocumentA), Reply(200, DocumentB), Reply(200, JDict(<<>>)),
     Reply(200, JDict("weather" :> JList(<<>>))),
     Reply(200, JDict("main" :> JNull)),
     Reply(200, NotJson), Reply(200, JList(<<>>)),
     Reply(204, NotJson), Reply(304, NotJson), Reply(304, DocumentA),
     Reply(400, JDict("cod" :> JInt(400))), Reply(401, JDict("cod" :> JInt(401))),
     Reply(404, NotJson), Reply(429, NotJson), Reply(500, NotJson), Reply(503, NotJson),
     Reply(599, NotJson)}

\* request bodies of POST /api/generate-image
Locations ==
    {JStr(<<"T", "e", "s", "t", " ", "C", "i", "t", "y">>), JStr(<<>>), JStr(Rep("x", 100)), JStr(Rep("x", 101)),
     JStr(Rep("x", 200)), JInt(5), JNull, JList(<<>>)}

Weathers ==
    {JStr(<<"s", "u", "n", "n", "y">>), JStr(Rep("w", 100)), JStr(Rep("w", 101)), JBool(TRUE), JNull}

Temperatures ==
    {JInt(25), JInt(0), JInt(-100), JInt(100), JInt(101), JInt(-101), JInt(150),
     JFloat(255, 10), JFloat(1001, 10), JFloat(-10001, 100),
     JStr(<<"2", "5">>), JStr(<<"-", "1", "0", "0">>), JStr(<<"1", "e", "2">>), JStr(<<"1", "e", "3">>), JStr(<<"h", "o", "t">>), JStr(<<>>), JStr(<<"n", "a", "n">>),
     JBool(TRUE), JNull, JList(<<JInt(25)>>), JDict(<<>>)}

Settings ==
    {JDict(<<>>), JDict("style" :> JStr(<<"r", "e", "a", "l", "i", "s", "t", "i", "c">>)), JNull, JStr(<<"n", "i", "g", "h", "t">>)}

\* a JSON object with any subset of the four fields
ObjectBodies ==
    {JDict(l @@ w @@ tp @@ st) :
        l \in Optional("location", Locations), w \in Optional("weather", Weathers),
        tp \in Optional("temperature", Temperatures), st \in Optional("settings", Settings)}

OtherBodies ==
    {BadBody, JNull, JList(<<>>), JList(<<JInt(1)>>), JStr(<<>>), JStr(<<"P", "a", "r", "i", "s">>),
     JInt(0), JInt(7), JBool(FALSE), JBool(TRUE)}

Bodies == ObjectBodies \cup OtherBodies

ProviderOutcomes ==
    {ProviderRaises(<<"q", "u", "o", "t", "a">>), ProviderRaises(<<"b", "a", "d", " ", "k", "e", "y">>),
     ProviderReturns(<<>>),
     ProviderReturns(<<BlockedCandidate>>),
     ProviderReturns(<<Candidate(<<>>)>>),
     ProviderReturns(<<Candidate(<<TextPart>>)>>),
     ProviderReturns(<<Candidate(<<ImagePart(<<"i", "m", "a", "g", "e", "/", "p", "n", "g">>, <<137, 80, 78, 71>>)>>)>>),
     ProviderReturns(<<Candidate(<<ImagePart(<<"i", "m", "a", "g", "e", "/", "j", "p", "e", "g">>, <<255, 216>>)>>), BlockedCandidate>>)}

\* the traffic of the running application on the rate-limited routes: one
\* query and one body, sent again and again
ProbeLat == Arg(<<"4", "0", ".", "7", "1", "2", "8">>)

ProbeLon == Arg(<<"-", "7", "4", ".", "0", "0", "6", "0">>)

ProbeBody == JDict("location" :> JStr(<<"P", "a", "r", "i", "s">>))

ProbeDate == [year |-> 2026, month |-> 11, day |-> 6]

ProbeImage == ProviderReturns(<<Candidate(<<ImagePart(<<"i", "m", "a", "g", "e", "/", "p", "n", "g">>, <<137, 80, 78, 71>>)>>)>>)

\* seconds the clock advances by in one step of that traffic
Delays == {30}

\* the traffic of the weather route: a good and a bad query, an upstream that
\* answers with one of two documents or not in time
WeatherLats == {Arg(<<"4", "0", ".", "7", "1", "2", "8">>), Arg(<<"i", "n", "v", "a", "l", "i", "d">>)}

WeatherLons == {Arg(<<"-", "7", "4", ".", "0", "0", "6", "0">>)}

WeatherTraffic == {Timeout, Reply(200, DocumentA), Reply(200, DocumentB)}

WeatherDelays == {60, 240}

\* the traffic of the image route: a body with a field, one with none, one
\* with a field that is refused, and a provider that returns an image or
\* raises
ImageTraffic ==
    {JDict("location" :> JStr(<<"T", "e", "s", "t", " ", "C", "i", "t", "y">>)), JDict(<<>>),
     JDict("temperature" :> JStr(<<"h", "o", "t">>))}

\* paths that no route matches
UnknownPaths == {"/api/forecast", "/favicon.ico"}

\* the weather upstream of the traffic on all routes
RoutesWeather == {Timeout, Reply(200, DocumentA), Reply(500, NotJson)}

\* the client of the requests that overlap, and what their upstream answers
GreenletClient == "10.0.0.1"

GreenletReplies == {Reply(200, DocumentA), Reply(200, DocumentB), Reply(500, NotJson)}

ImageReplies == {ProbeImage, ProviderRaises(<<"q", "u", "o", "t", "a">>)}

(***************************************************************************)
(* State                                                                   *)
(***************************************************************************)
NoCall == [kind |-> "none"]

NoPrior == [present |-> FALSE, time |-> 0, status |-> 0, body |-> <<>>]

Request(lat, lon, data, date) == [lat |-> lat, lon |-> lon, data |-> data, date |-> date]

NoDate == [year |-> 0, month |-> 0, day |-> 0]

\* one HTTP exchange: the request, what answered it (the limiter, the cache
\* or the handler), the upstream outcome it consumed, and the response with
\* the headers after_request has set
Exchange(route, client, t, request, via, upstream, prior, r) ==
    [route |-> route, client |-> client, time |-> t, request |-> request,
     via |-> via, upstream |-> IF r.calls > 0 THEN upstream ELSE NoCall,
     prior |-> prior,
     status |-> r.status, body |-> r.body, calls |-> r.calls, stage |-> r.stage,
     headers |-> add_security_headers(ContentType(r))]

NoExchange ==
    [route |-> "", client |-> "", time |-> 0,
     request |-> Request(NoArg, NoArg, JNull, NoDate),
     via |-> "", upstream |-> NoCall, prior |-> NoPrior,
     status |-> 0, body |-> <<>>, calls |-> 0, stage |-> "", headers |-> <<>>]

\* the state after start, with each key taken from a set of configurations
Start(weather_keys, image_keys) ==
    /\ WEATHER_API_KEY \in weather_keys
    /\ GEMINI_API_KEY \in image_keys
    /\ now = 0
    /\ storage = <<>>
    /\ cache = <<>>
    /\ resp = NoExchange
    /\ admits = <<>>
    /\ admitted = <<>>
    /\ answered = <<>>
    /\ posted = <<>>
    /\ generated = 0
    /\ greenlets = <<>>

Init == Start(Keys, Keys)

(***************************************************************************)
(* Bounds on the traffic                                                   *)
(***************************************************************************)
\* the clients with more than n hits on a running counter
Busy(st, t, n) == {k[1] : k \in {x \in DOMAIN st : st[x].expiry > t /\ st[x].count > n}}

\* a client stops a little after its limit is reached, and one client at a
\* time sends more than a few requests
MayRequest(client, route) ==
    /\ \A i \in DOMAIN RouteLimits(route) :
          LiveCount(storage, LimitKey(client, route, RouteLimits(route)[i]), now)
              < RouteLimits(route)[i].amount + MaxRejected
    /\ Busy(check_request_limit(storage, client, route, now).storage, now, MaxLight)
           \subseteq {CHOOSE c \in Clients : TRUE}

\* the shortest period among the limits of a route
ShortestPeriod(route) == RouteLimits(route)[1].period

\* the admitted request times of a scope, with one more when allowed
Admit(log, client, route, allowed, t) ==
    LET scope == <<client, route>>
        old == IF scope \in DOMAIN log THEN log[scope] ELSE <<>>
    IN IF allowed
       THEN [k \in DOMAIN log \cup {scope} |-> IF k = scope THEN Append(old, t) ELSE log[k]]
       ELSE log

\* per counter running after the request, the requests admitted since it
\* opened: a counter opened by this request starts from nothing
CountAdmitted(st, st2, client, route, allowed, t) ==
    [k \in DOMAIN st2 |->
        (IF k \in DOMAIN st /\ st[k].expiry > t /\ k \in DOMAIN admitted
         THEN admitted[k] ELSE 0)
        + (IF allowed /\ k[1] = client /\ k[2] = route THEN 1 ELSE 0)]

\* the keys of f that are kept
Restrict(f, keep) == [k \in keep |-> f[k]]

\* one more request with this body, when the limiter allowed it
Post(log, data, allowed) ==
    IF allowed
    THEN [d \in DOMAIN log \cup {data} |->
             (IF d \in DOMAIN log THEN log[d] ELSE 0) + (IF d = data THEN 1 ELSE 0)]
    ELSE log

(***************************************************************************)
(* Operations                                                              *)
(***************************************************************************)
\* the cache in front of the limiter: a stored response is returned without
\* a hit on the counters
WeatherRequest_cache_first(client, lat, lon, out) ==
    LET lim == check_request_limit(storage, client, "/api/weather", now)
        key == make_cache_key(lat, lon)
        hit == CacheHas(cache, key, now)
        rv == IF hit THEN Response(cache[key].rv.status, cache[key].rv.body, 0, "cache")
              ELSE get_weather(lat, lon, WEATHER_API_KEY, out)
        r == IF hit \/ lim.allowed THEN rv ELSE ratelimit_handler
        query == <<lat, lon>>
        prior == IF query \in DOMAIN answered
                 THEN [present |-> TRUE, time |-> answered[query].time,
                       status |-> answered[query].status, body |-> answered[query].body]
                 ELSE NoPrior
    IN /\ MayRequest(client, "/api/weather")
       /\ storage' = IF hit THEN storage ELSE lim.storage
       /\ cache' = IF lim.allowed /\ ~hit
                   THEN CacheSet(cache, key, [status |-> rv.status, body |-> rv.body], now)
                   ELSE cache
       /\ resp' = Exchange("/api/weather", client, now, Request(lat, lon, JNull, NoDate),
                           IF hit THEN "cache" ELSE IF lim.allowed THEN "handler" ELSE "limiter",
                           out, prior, r)
       /\ admits' = Admit(admits, client, "/api/weather", lim.allowed /\ ~hit, now)
       /\ admitted' = IF hit THEN admitted
                      ELSE CountAdmitted(storage, lim.storage, client, "/api/weather",
                                         lim.allowed, now)
       /\ answered' = IF r.calls > 0
                      THEN [k \in DOMAIN answered \cup {query} |->
                               IF k = query
                               THEN [time |-> now, status |-> r.status, body |-> r.body]
                               ELSE answered[k]]
                      ELSE answered
       /\ UNCHANGED <<WEATHER_API_KEY, GEMINI_API_KEY, now, posted, generated, greenlets>>

\* GET /api/weather?lat=..&lon=..: limiter, then cache, then the handler
\* (src/app.py:140-143); the view's return value is cached
WeatherRequest(client, lat, lon, out) ==
    LET lim == check_request_limit(storage, client, "/api/weather", now)
        key == make_cache_key(lat, lon)
        hit == CacheHas(cache, key, now)
        rv == IF hit THEN Response(cache[key].rv.status, cache[key].rv.body, 0, "cache")
              ELSE get_weather(lat, lon, WEATHER_API_KEY, out)
        r == IF lim.allowed THEN rv ELSE ratelimit_handler
        query == <<lat, lon>>
        prior == IF query \in DOMAIN answered
                 THEN [present |-> TRUE, time |-> answered[query].time,
                       status |-> answered[query].status, body |-> answered[query].body]
                 ELSE NoPrior
    IN /\ MayRequest(client, "/api/weather")
       /\ storage' = lim.storage
       /\ cache' = IF lim.allowed /\ ~hit
                   THEN CacheSet(cache, key, [status |-> rv.status, body |-> rv.body], now)
                   ELSE cache
       /\ resp' = Exchange("/api/weather", client, now, Request(lat, lon, JNull, NoDate),
                           IF ~lim.allowed THEN "limiter" ELSE IF hit THEN "cache" ELSE "handler",
                           out, prior, r)
       /\ admits' = Admit(admits, client, "/api/weather", lim.allowed, now)
       /\ admitted' = CountAdmitted(storage, lim.storage, client, "/api/weather",
                                    lim.allowed, now)
       /\ answered' = IF r.calls > 0
                      THEN [k \in DOMAIN answered \cup {query} |->
                               IF k = query
                               THEN [time |-> now, status |-> r.status, body |-> r.body]
                               ELSE answered[k]]
                      ELSE answered
       /\ UNCHANGED <<WEATHER_API_KEY, GEMINI_API_KEY, now, posted, generated, greenlets>>

\* POST /api/generate-image: limiter, then the handler (src/app.py:203-205)
GenerateImageRequest(client, data, date, out) ==
    LET lim == check_request_limit(storage, client, "/api/generate-image", now)
        r == IF lim.allowed THEN generate_image(data, GEMINI_API_KEY, date, out)
             ELSE ratelimit_handler
    IN /\ MayRequest(client, "/api/generate-image")
       /\ storage' = lim.storage
       /\ resp' = Exchange("/api/generate-image", client, now,
                           Request(NoArg, NoArg, data, date),
                           IF lim.allowed THEN "handler" ELSE "limiter", out, NoPrior, r)
       /\ admits' = Admit(admits, client, "/api/generate-image", lim.allowed, now)
       /\ admitted' = CountAdmitted(storage, lim.storage, client, "/api/generate-image",
                                    lim.allowed, now)
       /\ posted' = Post(posted, data, lim.allowed)
       /\ generated' = generated + r.calls
       /\ UNCHANGED <<WEATHER_API_KEY, GEMINI_API_KEY, now, cache, answered, greenlets>>

\* src/app.py:113-121
metrics ==
    Response(200,
             ("cache_type" :> JText(<<Lit("simple")>>))
             @@ ("redis_configured" :> JBool(FALSE))
             @@ ("timestamp" :> JInt(now)),
             0, "done")

\* GET /metrics: limiter, then the handler
MetricsRequest(client) ==
    LET lim == check_request_limit(storage, client, "/metrics", now)
        r == IF lim.allowed THEN metrics ELSE ratelimit_handler
    IN /\ MayRequest(client, "/metrics")
       /\ storage' = lim.storage
       /\ resp' = Exchange("/metrics", client, now, Request(NoArg, NoArg, JNull, NoDate),
                           IF lim.allowed THEN "handler" ELSE "limiter", NoCall, NoPrior, r)
       /\ admits' = Admit(admits, client, "/metrics", lim.allowed, now)
       /\ admitted' = CountAdmitted(storage, lim.storage, client, "/metrics",
                                    lim.allowed, now)
       /\ UNCHANGED <<WEATHER_API_KEY, GEMINI_API_KEY, now, cache, answered, posted,
                       generated, greenlets>>

\* src/app.py:80-87
health_check ==
    Response(200,
             ("status" :> JText(<<Lit("healthy")>>)) @@ ("timestamp" :> JInt(now)),
             0, "done")

\* GET /health: exempt from the limiter
HealthRequest(client) ==
    /\ resp' = Exchange("/health", client, now, Request(NoArg, NoArg, JNull, NoDate),
                        "handler", NoCall, NoPrior, health_check)
    /\ UNCHANGED <<WEATHER_API_KEY, GEMINI_API_KEY, now, storage, cache, admits,
                   admitted, answered, posted, generated, greenlets>>

\* src/app.py:88-111: the cache object exists once the module is loaded
readiness_check ==
    LET checks == ("weather_api" :> JBool(WEATHER_API_KEY # ""))
                  @@ ("image_api" :> JBool(GEMINI_API_KEY # ""))
                  @@ ("cache" :> JBool(TRUE))
        all_ready == \A k \in DOMAIN checks : checks[k] = JBool(TRUE)
    IN Response(IF all_ready THEN 200 ELSE 503,
                ("status" :> JText(<<Lit(IF all_ready THEN "ready" ELSE "not_ready")>>))
                @@ ("checks" :> JDict(checks))
                @@ ("timestamp" :> JInt(now)),
                0, "done")

\* GET /ready: exempt from the limiter
ReadyRequest(client) ==
    /\ resp' = Exchange("/ready", client, now, Request(NoArg, NoArg, JNull, NoDate),
                        "handler", NoCall, NoPrior, readiness_check)
    /\ UNCHANGED <<WEATHER_API_KEY, GEMINI_API_KEY, now, storage, cache, admits,
                   admitted, answered, posted, generated, greenlets>>

\* src/app.py:135-138: the page, or the answer of handle_exception when the
\* template cannot be rendered
index(rendered) ==
    IF rendered
    THEN Response(200, "template" :> JText(<<Lit("index.html")>>), 0, "template")
    ELSE handle_exception

\* GET /: the default limits, then the view
IndexRequest(client, rendered) ==
    LET lim == check_request_limit(storage, client, "/", now)
        r == IF lim.allowed THEN index(rendered) ELSE ratelimit_handler
    IN /\ MayRequest(client, "/")
       /\ storage' = lim.storage
       /\ resp' = Exchange("/", client, now, Request(NoArg, NoArg, JNull, NoDate),
                           IF lim.allowed THEN "handler" ELSE "limiter", NoCall, NoPrior, r)
       /\ admits' = Admit(admits, client, "/", lim.allowed, now)
       /\ admitted' = CountAdmitted(storage, lim.storage, client, "/", lim.allowed, now)
       /\ UNCHANGED <<WEATHER_API_KEY, GEMINI_API_KEY, now, cache, answered, posted,
                       generated, greenlets>>

\* src/app.py:332-335
not_found == Response(404, ErrorBody("Resource not found"), 0, "routing")

\* a path no route matches: no endpoint, so the limiter lets it be, and the
\* 404 handler answers
NotFoundRequest(client, path) ==
    /\ resp' = Exchange(path, client, now, Request(NoArg, NoArg, JNull, NoDate),
                        "handler", NoCall, NoPrior, not_found)
    /\ UNCHANGED <<WEATHER_API_KEY, GEMINI_API_KEY, now, storage, cache, admits,
                   admitted, answered, posted, generated, greenlets>>

\* time passes; counters and cache entries that have expired are dropped
\* (an expired one is never read again: LiveCount and CacheHas compare the
\* expiry with the clock)
Tick(d, until) ==
    /\ now + d <= until
    /\ now' = now + d
    /\ storage' = Restrict(storage, {k \in DOMAIN storage : storage[k].expiry > now + d})
    /\ cache' = Restrict(cache, {k \in DOMAIN cache : cache[k].expires > now + d})
    /\ admits' = [k \in DOMAIN admits |->
                     SelectSeq(admits[k], LAMBDA x : x > now + d - ShortestPeriod(k[2]))]
    /\ admitted' = Restrict(admitted, {k \in DOMAIN storage : storage[k].expiry > now + d})
    /\ UNCHANGED <<WEATHER_API_KEY, GEMINI_API_KEY, resp, answered, posted, generated,
                   greenlets>>

\* the handlers applied to the first request after start, on their own
GetWeatherCall(lat, lon, out) ==
    /\ resp = NoExchange
    /\ resp' = Exchange("/api/weather", "", now, Request(lat, lon, JNull, NoDate),
                        "handler", out, NoPrior, get_weather(lat, lon, WEATHER_API_KEY, out))
    /\ UNCHANGED <<WEATHER_API_KEY, GEMINI_API_KEY, now, storage, cache, admits,
                   admitted, answered, posted, generated, greenlets>>

GenerateImageCall(data, date, out) ==
    /\ resp = NoExchange
    /\ resp' = Exchange("/api/generate-image", "", now, Request(NoArg, NoArg, data, date),
                        "handler", out, NoPrior,
                        generate_image(data, GEMINI_API_KEY, date, out))
    /\ posted' = Post(posted, data, TRUE)
    /\ generated' = generated + generate_image(data, GEMINI_API_KEY, date, out).calls
    /\ UNCHANGED <<WEATHER_API_KEY, GEMINI_API_KEY, now, storage, cache, admits,
                   admitted, answered, greenlets>>

(***************************************************************************)
(* Requests in progress at the same time.  worker_class = 'gevent'         *)
(* (src/gunicorn_config.py:13): a request runs in a greenlet of its worker *)
(* and gives way to the others while it waits for its outbound call; what  *)
(* it does before and after the call runs in one piece.  The worker's      *)
(* `timeout = 120` (src/gunicorn_config.py:26) is the silence after which  *)
(* the arbiter restarts a worker; a gevent worker keeps notifying the      *)
(* arbiter while its greenlets wait, so it ends no request.                *)
(***************************************************************************)
Greenlets == 1..MaxGreenlets

NoResponse == Response(0, <<>>, 0, "")

\* the cache writes so far, in their order
Writes ==
    LET done == {greenlets[g].wrote : g \in DOMAIN greenlets} \cup {0}
    IN CHOOSE n \in done : \A m \in done : m <= n

\* a weather request up to its upstream call: limiter, cache lookup, and the
\* handler down to session.get (src/app.py:140-170); it is answered at once
\* when it does not get that far
WeatherBegin(g, client, lat, lon) ==
    LET lim == check_request_limit(storage, client, "/api/weather", now)
        key == make_cache_key(lat, lon)
        hit == CacheHas(cache, key, now)
        early == get_weather(lat, lon, WEATHER_API_KEY, Timeout)
        waits == lim.allowed /\ ~hit /\ early.calls = 1
        stores == lim.allowed /\ ~hit /\ early.calls = 0
        r == IF ~lim.allowed THEN ratelimit_handler
             ELSE IF hit THEN Response(cache[key].rv.status, cache[key].rv.body, 0, "cache")
             ELSE early
    IN /\ g \notin DOMAIN greenlets
       /\ storage' = lim.storage
       /\ cache' = IF stores
                   THEN CacheSet(cache, key, [status |-> r.status, body |-> r.body], now)
                   ELSE cache
       /\ greenlets' =
              greenlets @@
              (g :> [route |-> "/api/weather", client |-> client,
                     request |-> Request(lat, lon, JNull, NoDate),
                     phase |-> IF waits THEN "waiting" ELSE "done",
                     out |-> NoCall,
                     r |-> IF waits THEN NoResponse ELSE r,
                     wrote |-> IF stores THEN Writes + 1 ELSE 0])
       /\ resp' = IF waits THEN resp
                  ELSE Exchange("/api/weather", client, now, Request(lat, lon, JNull, NoDate),
                                IF ~lim.allowed THEN "limiter"
                                ELSE IF hit THEN "cache" ELSE "handler",
                                NoCall, NoPrior, r)
       /\ admits' = Admit(admits, client, "/api/weather", lim.allowed, now)
       /\ admitted' = CountAdmitted(storage, lim.storage, client, "/api/weather",
                                    lim.allowed, now)
       /\ UNCHANGED <<WEATHER_API_KEY, GEMINI_API_KEY, now, answered, posted, generated>>

\* an entry that is there already is left as it is
WeatherReturn_keep_first(g, out) ==
    /\ g \in DOMAIN greenlets
    /\ greenlets[g].route = "/api/weather"
    /\ greenlets[g].phase = "waiting"
    /\ LET x == greenlets[g]
           r == fetch_weather(out)
           key == make_cache_key(x.request.lat, x.request.lon)
           query == <<x.request.lat, x.request.lon>>
       IN
       /\ cache' = IF CacheHas(cache, key, now) THEN cache
                   ELSE CacheSet(cache, key, [status |-> r.status, body |-> r.body], now)
       /\ greenlets' = [greenlets EXCEPT ![g] =
                           [x EXCEPT !.phase = "done", !.out = out, !.r = r,
                                     !.wrote = Writes + 1]]
       /\ resp' = Exchange("/api/weather", x.client, now, x.request, "handler", out,
                           NoPrior, r)
       /\ answered' = [k \in DOMAIN answered \cup {query} |->
                           IF k = query
                           THEN [time |-> now, status |-> r.status, body |-> r.body]
                           ELSE answered[k]]
       /\ UNCHANGED <<WEATHER_API_KEY, GEMINI_API_KEY, now, storage, admits, admitted,
                       posted, generated>>

\* the rest of a weather request once session.get has returned or raised
\* (src/app.py:170-201), and the cache's store of what the view returned
WeatherReturn(g, out) ==
    /\ g \in DOMAIN greenlets
    /\ greenlets[g].route = "/api/weather"
    /\ greenlets[g].phase = "waiting"
    /\ LET x == greenlets[g]
           r == fetch_weather(out)
           key == make_cache_key(x.request.lat, x.request.lon)
           query == <<x.request.lat, x.request.lon>>
       IN
       /\ cache' = CacheSet(cache, key, [status |-> r.status, body |-> r.body], now)
       /\ greenlets' = [greenlets EXCEPT ![g] =
                           [x EXCEPT !.phase = "done", !.out = out, !.r = r,
                                     !.wrote = Writes + 1]]
       /\ resp' = Exchange("/api/weather", x.client, now, x.request, "handler", out,
                           NoPrior, r)
       /\ answered' = [k \in DOMAIN answered \cup {query} |->
                           IF k = query
                           THEN [time |-> now, status |-> r.status, body |-> r.body]
                           ELSE answered[k]]
       /\ UNCHANGED <<WEATHER_API_KEY, GEMINI_API_KEY, now, storage, admits, admitted,
                       posted, generated>>

\* the upstream answers, or the connection fails
WeatherReply(g, out) == out.kind # "timeout" /\ WeatherReturn(g, out)

\* timeout=10 (src/app.py:170): the wait ends by itself
WeatherDeadline(g) == WeatherReturn(g, Timeout)

\* an image request up to generate_content: limiter, and the handler down to
\* the call (src/app.py:203-269)
GenerateImageBegin(g, client, data, date) ==
    LET lim == check_request_limit(storage, client, "/api/generate-image", now)
        early == generate_image(data, GEMINI_API_KEY, date, ProviderReturns(<<>>))
        waits == lim.allowed /\ early.calls = 1
        r == IF lim.allowed THEN early ELSE ratelimit_handler
    IN /\ g \notin DOMAIN greenlets
       /\ storage' = lim.storage
       /\ greenlets' =
              greenlets @@
              (g :> [route |-> "/api/generate-image", client |-> client,
                     request |-> Request(NoArg, NoArg, data, date),
                     phase |-> IF waits THEN "waiting" ELSE "done",
                     out |-> NoCall,
                     r |-> IF waits THEN NoResponse ELSE r,
                     wrote |-> 0])
       /\ resp' = IF waits THEN resp
                  ELSE Exchange("/api/generate-image", client, now,
                                Request(NoArg, NoArg, data, date),
                                IF lim.allowed THEN "handler" ELSE "limiter",
                                NoCall, NoPrior, r)
       /\ admits' = Admit(admits, client, "/api/generate-image", lim.allowed, now)
       /\ admitted' = CountAdmitted(storage, lim.storage, client, "/api/generate-image",
                                    lim.allowed, now)
       /\ posted' = Post(posted, data, lim.allowed)
       /\ generated' = generated + (IF waits THEN 1 ELSE 0)
       /\ UNCHANGED <<WEATHER_API_KEY, GEMINI_API_KEY, now, cache, answered>>

\* the rest of an image request once generate_content has returned or raised
\* (src/app.py:269-320); the call is given no time limit
GenerateImageReturn(g, out) ==
    LET x == greenlets[g]
        r == generate_image(x.request.data, GEMINI_API_KEY, x.request.date, out)
    IN /\ g \in DOMAIN greenlets
       /\ x.route = "/api/generate-image"
       /\ x.phase = "waiting"
       /\ greenlets' = [greenlets EXCEPT ![g] =
                           [x EXCEPT !.phase = "done", !.out = out, !.r = r]]
       /\ resp' = Exchange("/api/generate-image", x.client, now, x.request, "handler",
                           out, NoPrior, r)
       /\ UNCHANGED <<WEATHER_API_KEY, GEMINI_API_KEY, now, storage, cache, admits,
                       admitted, answered, posted, generated>>

(***************************************************************************)
(* Specifications                                                          *)
(***************************************************************************)
\* a run's traffic stays on the route of its first request
OnRoute(route) == resp.route \in {"", route}

\* how long the traffic of a route is followed: past the hour limit's tenth
\* request where there is one, through two windows where there is none
Horizon(route) == IF Len(RouteLimits(route)) > 1 THEN MaxTime ELSE MaxShort

\* the running application under the traffic of the rate-limited routes
Next ==
    \/ /\ OnRoute("/api/weather")
       /\ \E c \in Clients : WeatherRequest(c, ProbeLat, ProbeLon, Reply(200, DocumentA))
    \/ /\ OnRoute("/api/generate-image")
       /\ \E c \in Clients : GenerateImageRequest(c, ProbeBody, ProbeDate, ProbeImage)
    \/ /\ OnRoute("/metrics")
       /\ \E c \in Clients : MetricsRequest(c)
    \/ \E d \in Delays : Tick(d, Horizon(resp.route))

\* a deployment with both keys configured
Spec == Start({"secret"}, {"secret"}) /\ [][Next]_vars

\* the weather route under its traffic
NextWeather ==
    \/ \E c \in Clients :
          /\ LiveCount(storage, LimitKey(c, "/api/weather", Limit(30, 60)), now) < MaxBurst
          /\ \E lat \in WeatherLats, lon \in WeatherLons, out \in WeatherTraffic :
                WeatherRequest(c, lat, lon, out)
    \/ \E d \in WeatherDelays : Tick(d, MaxTime)

\* the image key plays no part on the weather route
SpecWeather == Start(Keys, {"secret"}) /\ [][NextWeather]_vars

\* the image route under its traffic
NextImage ==
    \/ \E c \in Clients, data \in ImageTraffic, out \in ImageReplies :
          GenerateImageRequest(c, data, ProbeDate, out)
    \/ \E d \in Delays : Tick(d, MaxShort)

SpecImage == Start({"secret"}, {"secret"}) /\ [][NextImage]_vars

\* the traffic of every route
NextRoutes ==
    \/ /\ OnRoute("/api/weather")
       /\ \E c \in Clients :
             /\ LiveCount(storage, LimitKey(c, "/api/weather", Limit(30, 60)), now) < MaxBurst
             /\ \E lat \in WeatherLats, lon \in WeatherLons, out \in RoutesWeather :
                   WeatherRequest(c, lat, lon, out)
    \/ /\ OnRoute("/api/generate-image")
       /\ \E c \in Clients, data \in ImageTraffic, out \in ImageReplies :
             GenerateImageRequest(c, data, ProbeDate, out)
    \/ /\ OnRoute("/metrics")
       /\ \E c \in Clients : MetricsRequest(c)
    \/ /\ OnRoute("/health")
       /\ \E c \in Clients : HealthRequest(c)
    \/ /\ OnRoute("/ready")
       /\ \E c \in Clients : ReadyRequest(c)
    \/ /\ OnRoute("/")
       /\ \E c \in Clients :
             /\ LiveCount(storage, LimitKey(c, "/", Limit(50, 60)), now) < MaxBurst
             /\ \E rendered \in BOOLEAN : IndexRequest(c, rendered)
    \/ \E path \in UnknownPaths :
          /\ OnRoute(path)
          /\ \E c \in Clients : NotFoundRequest(c, path)
    \/ \E d \in Delays : Tick(d, MaxShort)

\* every configuration of the two keys
SpecRoutes == Init /\ [][NextRoutes]_vars

\* requests that overlap in one worker
NextGreenlets ==
    \E g \in Greenlets :
        \/ \E lat \in WeatherLats, lon \in WeatherLons :
              WeatherBegin(g, GreenletClient, lat, lon)
        \/ \E out \in GreenletReplies : WeatherReply(g, out)
        \/ WeatherDeadline(g)
        \/ \E data \in ImageTraffic : GenerateImageBegin(g, GreenletClient, data, ProbeDate)
        \/ \E out \in ImageReplies : GenerateImageReturn(g, out)

\* the socket timeout of session.get ends a wait that nothing else ends;
\* nothing in the application ends the wait for generate_content
SpecGreenlets ==
    /\ Start({"secret"}, {"secret"})
    /\ [][NextGreenlets]_vars
    /\ \A g \in Greenlets : WF_vars(WeatherDeadline(g))

\* the two handlers over all the inputs
NextHandlers ==
    /\ resp = NoExchange
    /\ \/ \E lat \in Lats, lon \in Lons, out \in WeatherOutcomes :
             GetWeatherCall(lat, lon, out)
       \/ \E status \in {200, 203}, doc \in PartialDocuments :
             GetWeatherCall(ProbeLat, ProbeLon, Reply(status, doc))
       \/ \E data \in Bodies, date \in Dates, out \in ProviderOutcomes :
             GenerateImageCall(data, date, out)

SpecHandlers == Init /\ [][NextHandlers]_vars

(***************************************************************************)
(* The requests as the specification classifies them.  Each set lists, by  *)
(* hand, the inputs above that the specification's words accept; none is   *)
(* computed with the handlers' own parsing.                                *)
(***************************************************************************)
\* the latitude texts that are a number within [-90, 90]
LatitudesInRange ==
    {<<"4", "0", ".", "7", "1", "2", "8">>,
     <<"0">>,
     <<"9", "0">>,
     <<"-", "9", "0">>,
     <<"9", "0", ".", "0">>,
     <<"+", "9", "0">>,
     <<"9", "e", "1">>,
     <<" ", "4", "5", " ">>}

\* the longitude texts that are a number within [-180, 180]
LongitudesInRange ==
    {<<"-", "7", "4", ".", "0", "0", "6", "0">>,
     <<"1", "8", "0">>,
     <<"-", "1", "8", "0">>,
     <<"1", "8", "0", ".", "0">>,
     <<"1", "8", "e", "1">>}

\* both coordinates present, numbers, and in range
ValidQuery(request) ==
    /\ request.lat.present /\ request.lat.text \in LatitudesInRange
    /\ request.lon.present /\ request.lon.text \in LongitudesInRange

\* the location and weather values that are strings of at most 100 characters
AcceptableLocations == {JStr(<<"T", "e", "s", "t", " ", "C", "i", "t", "y">>), JStr(<<>>), JStr(Rep("x", 100))}

AcceptableWeathers == {JStr(<<"s", "u", "n", "n", "y">>), JStr(Rep("w", 100))}

\* the temperature values that float() turns into a number within
\* [-100, 100]: JSON numbers, numeric strings, and true (float(True) is 1.0)
AcceptableTemperatures ==
    {JInt(25), JInt(0), JInt(-100), JInt(100), JFloat(255, 10),
     JStr(<<"2", "5">>), JStr(<<"-", "1", "0", "0">>), JStr(<<"1", "e", "2">>), JBool(TRUE)}

IsObject(data) == data.t = "dict"

\* every field that is present is acceptable
PresentFieldsValid(data) ==
    /\ "location" \in DOMAIN data.v => data.v["location"] \in AcceptableLocations
    /\ "weather" \in DOMAIN data.v => data.v["weather"] \in AcceptableWeathers
    /\ "temperature" \in DOMAIN data.v => data.v["temperature"] \in AcceptableTemperatures

\* a request the specification's validation rejects: coordinates missing,
\* not numbers or out of range; a body that is no JSON object, or one with a
\* present field that is not acceptable
FailsValidation(x) ==
    \/ x.route = "/api/weather" /\ ~ValidQuery(x.request)
    \/ /\ x.route = "/api/generate-image"
       /\ ~(IsObject(x.request.data) /\ PresentFieldsValid(x.request.data))

(***************************************************************************)
(* Claims                                                                  *)
(***************************************************************************)
\* C1: on both routes a request that fails validation is answered 400 with
\* an 'error' field, and no outbound call is made for it.
C1_FailFast ==
    FailsValidation(resp) =>
        /\ resp.status = 400
        /\ "error" \in DOMAIN resp.body
        /\ resp.calls = 0

\* C2: a weather request passes validation exactly when both coordinates are
\* present, are numbers, and lie in [-90, 90] and [-180, 180], bounds
\* included; every other weather request gets 400 with an 'error' field.
C2_CoordinateValidation ==
    resp.route = "/api/weather" =>
        /\ (resp.status # 400) <=> ValidQuery(resp.request)
        /\ (resp.status = 400) => "error" \in DOMAIN resp.body

\* both coordinates on a bound, and the request has gone through
C2_Witness ==
    /\ resp.route = "/api/weather"
    /\ resp.request.lat = Arg(<<"-", "9", "0">>)
    /\ resp.request.lon = Arg(<<"1", "8", "0">>)
    /\ resp.status = 200

\* the upstream bodies of the inputs that are a JSON object whose sections
\* have the shape the nine fields are read from
UsableDocuments == {DocumentA, DocumentB, JDict(<<>>)} \cup PartialDocuments

\* the 502 body names the upstream status
CarriesStatus(x) == Sub(NatToText(x.upstream.status)) \in Range(x.body["error"].v)

\* C3 as stated: with valid coordinates the status is that of the first
\* failing stage, credential then call: no key 500 without a call, a timeout
\* 504, a reply that is not 2xx 502 with the upstream status, a network
\* failure 500, and 200 otherwise; invalid coordinates get 400 even without
\* a key.
C3_StatusByStage ==
    resp.route = "/api/weather" =>
        IF ~ValidQuery(resp.request) THEN resp.status = 400 /\ resp.calls = 0
        ELSE IF WEATHER_API_KEY = "" THEN resp.status = 500 /\ resp.calls = 0
        ELSE /\ resp.calls = 1
             /\ IF resp.upstream.kind = "timeout" THEN resp.status = 504
                ELSE IF resp.upstream.kind = "connection" THEN resp.status = 500
                ELSE IF ~(200 <= resp.upstream.status /\ resp.upstream.status <= 299)
                THEN resp.status = 502 /\ CarriesStatus(resp)
                ELSE resp.status = 200

\* C3 as the handler has it: as above, but 502 is the answer to an upstream
\* 4xx or 5xx status only, and a reply of any other status gives 200 when
\* its body is a usable JSON object and 500 when it is not.
C3_StatusByStageAmended ==
    resp.route = "/api/weather" =>
        IF ~ValidQuery(resp.request) THEN resp.status = 400 /\ resp.calls = 0
        ELSE IF WEATHER_API_KEY = "" THEN resp.status = 500 /\ resp.calls = 0
        ELSE /\ resp.calls = 1
             /\ IF resp.upstream.kind = "timeout" THEN resp.status = 504
                ELSE IF resp.upstream.kind = "connection" THEN resp.status = 500
                ELSE IF 400 <= resp.upstream.status /\ resp.upstream.status <= 599
                THEN resp.status = 502 /\ CarriesStatus(resp)
                ELSE IF resp.upstream.json \in UsableDocuments THEN resp.status = 200
                ELSE resp.status = 500

\* the upstream answered 200 with a body that is no JSON, and the request
\* got 500
C3_Witness ==
    /\ resp.route = "/api/weather"
    /\ ValidQuery(resp.request)
    /\ resp.upstream = Reply(200, NotJson)
    /\ resp.status = 500

\* C4: once a weather query has been answered from upstream, every later
\* request with the same query within 300 seconds gets the same payload and
\* makes no upstream call; the first one after the 300 seconds calls upstream
\* again.  Read of the requests the rate limiter lets through to the cache,
\* in one application process: `prior` is the last answer to the same query
\* that came from upstream; an answer is a payload, that is a 200.
C4_CacheWindow ==
    (/\ resp.route = "/api/weather"
     /\ resp.via # "limiter"
     /\ resp.prior.present
     /\ resp.prior.status = 200) =>
        IF resp.time - resp.prior.time < 300
        THEN /\ resp.calls = 0
             /\ resp.status = resp.prior.status
             /\ resp.body = resp.prior.body
        ELSE resp.calls = 1

\* a request answered from the cache, some time after the upstream answer it
\* repeats
C4_Witness ==
    /\ resp.route = "/api/weather"
    /\ resp.via = "cache"
    /\ resp.prior.present
    /\ resp.time > resp.prior.time
    /\ resp.status = 200
    /\ resp.body = resp.prior.body
    /\ resp.calls = 0

\* the thresholds as the specification gives them, per route and period
Threshold(route, period) ==
    CASE route = "/api/weather" /\ period = 60 -> 30
      [] route = "/api/generate-image" /\ period = 60 -> 2
      [] route = "/api/generate-image" /\ period = 3600 -> 10
      [] route = "/metrics" /\ period = 60 -> 10

\* a counter of the client and route of the exchange that is over its
\* threshold
OverThreshold(x) ==
    \E k \in DOMAIN storage :
        /\ k[1] = x.client /\ k[2] = x.route
        /\ storage[k].expiry > now
        /\ storage[k].count > Threshold(k[2], k[3])

UsesDefaults(x) ==
    /\ "prompt" \in DOMAIN x.body
    /\ LET p == x.body["prompt"].v
           d == DOMAIN x.request.data.v
       IN /\ "location" \notin d =>
                 /\ p[2] = Sub(<<"u", "n", "k", "n", "o", "w", "n", " ", "l", "o", "c", "a", "t", "i", "o", "n">>)
                 /\ p[10] = Sub(<<"u", "n", "k", "n", "o", "w", "n", " ", "l", "o", "c", "a", "t", "i", "o", "n">>)
          /\ "weather" \notin d => p[6] = Sub(<<"c", "l", "e", "a", "r", " ", "s", "k", "y">>)
          /\ "temperature" \notin d => p[20] = Sub(<<"2", "0">>)

\* C6: a JSON object is never rejected for a field it leaves out,
\* whatever subset of location, weather, temperature and settings is
\* missing, all four included; the prompt is built with the defaults.
C6_AbsentFields ==
    (/\ resp.route = "/api/generate-image"
     /\ IsObject(resp.request.data)
     /\ PresentFieldsValid(resp.request.data)) =>
        /\ resp.status # 400
        /\ UsesDefaults(resp)

\* some field that is present is not acceptable
SomeFieldInvalid(data) == IsObject(data) /\ ~PresentFieldsValid(data)

\* C7: a location or weather that is present and is not a string of at most
\* 100 characters, or a temperature that is present and is not a number
\* within [-100, 100], gets 400 with an 'error' field; strings of at most
\* 100 characters (100 included) and a temperature in [-100, 100] pass.
C7_FieldValidation ==
    (resp.route = "/api/generate-image" /\ IsObject(resp.request.data)) =>
        /\ SomeFieldInvalid(resp.request.data) =>
              /\ resp.status = 400
              /\ "error" \in DOMAIN resp.body
              /\ resp.calls = 0
        /\ (/\ PresentFieldsValid(resp.request.data)
            /\ DOMAIN resp.request.data.v \cap {"location", "weather", "temperature"} # {}) =>
              resp.status # 400

\* the three fields on their bounds, and the request has gone through
C7_Witness ==
    /\ resp.route = "/api/generate-image"
    /\ IsObject(resp.request.data)
    /\ DOMAIN resp.request.data.v = {"location", "weather", "temperature"}
    /\ resp.request.data.v["location"] = JStr(Rep("x", 100))
    /\ resp.request.data.v["weather"] = JStr(Rep("w", 100))
    /\ resp.request.data.v["temperature"] = JInt(100)
    /\ resp.status = 200

\* C8: a body that is missing, is not JSON, or is JSON but no object is
\* answered 400, never 500, and is rejected before any field is validated.
C8_MalformedBody ==
    (resp.route = "/api/generate-image" /\ ~IsObject(resp.request.data)) =>
        /\ resp.status = 400
        /\ "error" \in DOMAIN resp.body
        /\ resp.stage = "body"

\* a body that passes validation: a JSON object with every present field
\* acceptable
PassesValidation(data) == IsObject(data) /\ PresentFieldsValid(data)

\* C9: without an image key, a request that passes validation gets 200 with
\* the fixed placeholder image_url, the prompt and a message, and the
\* provider is not called.
C9_Placeholder ==
    (/\ resp.route = "/api/generate-image"
     /\ GEMINI_API_KEY = ""
     /\ PassesValidation(resp.request.data)) =>
        /\ resp.status = 200
        /\ DOMAIN resp.body = {"image_url", "prompt", "message"}
        /\ resp.body["image_url"]
              = JText(<<Lit("https://via.placeholder.com/1000x1000.png?text=Configure+API+Key")>>)
        /\ resp.body["prompt"].v # <<>>
        /\ resp.body["message"].v # <<>>
        /\ resp.calls = 0

\* the provider completed the call without an image, in the two ways the
\* specification names: no candidate, or a first part without inline data
NoImageContent(out) ==
    /\ out.kind = "response"
    /\ \/ out.candidates = <<>>
       \/ /\ out.candidates[1].content
          /\ out.candidates[1].parts # <<>>
          /\ ~out.candidates[1].parts[1].inline_data

NullImage(x) == "image_url" \in DOMAIN x.body /\ x.body["image_url"] = JNull

\* C10: with an image key, a provider that completes the call without image
\* content gets 200 with image_url null, not 500; image_url is null in no
\* other outcome.
C10_NoImage ==
    resp.route = "/api/generate-image" =>
        /\ (resp.calls = 1 /\ NoImageContent(resp.upstream)) =>
              resp.status = 200 /\ NullImage(resp)
        /\ NullImage(resp) => resp.calls = 1 /\ NoImageContent(resp.upstream)

\* the response to the same request had the provider raised with another text
OtherFailure(x, out) ==
    generate_image(x.request.data, GEMINI_API_KEY, x.request.date, out)

\* C11: when the provider raises, the response is 500 with the prompt and a
\* hint to look at the credentials and the model, and its body is the same
\* whatever the text of the exception: the same request with the provider
\* raising another text gets the same body.
C11_ProviderFailure ==
    (/\ resp.route = "/api/generate-image"
     /\ resp.calls = 1
     /\ resp.upstream.kind = "raise") =>
        /\ resp.status = 500
        /\ "prompt" \in DOMAIN resp.body
        /\ "message" \in DOMAIN resp.body
        /\ resp.body["message"]
              = JText(<<Lit("Check API key configuration and model availability")>>)
        /\ \A out \in ProviderOutcomes :
              out.kind = "raise" => OtherFailure(resp, out).body = resp.body

\* the field of a body, or what the specification puts in its place
Field(data, name, default) == IF name \in DOMAIN data.v THEN data.v[name] ELSE default

\* how each acceptable temperature reads in a prompt: the value as it was
\* sent, 20 for none
TemperatureTexts ==
    {<<JInt(25), <<"2", "5">>>>,
     <<JInt(0), <<"0">>>>,
     <<JInt(-100), <<"-", "1", "0", "0">>>>,
     <<JInt(100), <<"1", "0", "0">>>>,
     <<JFloat(255, 10), <<"2", "5", ".", "5">>>>,
     <<JStr(<<"2", "5">>), <<"2", "5">>>>,
     <<JStr(<<"-", "1", "0", "0">>), <<"-", "1", "0", "0">>>>,
     <<JStr(<<"1", "e", "2">>), <<"1", "e", "2">>>>,
     <<JBool(TRUE), <<"T", "r", "u", "e">>>>,
     <<JInt(20), <<"2", "0">>>>}

Written(temperature) == (CHOOSE p \in TemperatureTexts : p[1] = temperature)[2]

\* the same body with another value of settings, or with none
SettingsVariants(data) ==
    LET rest == [k \in DOMAIN data.v \ {"settings"} |-> data.v[k]]
    IN {JDict(rest)} \cup {JDict(rest @@ ("settings" :> st)) : st \in Settings}

\* the prompt names the location, the weather, the temperature before the
\* degree sign, and the size
NamesFields(p, data) ==
    /\ Sub(Field(data, "location", JStr(<<"u", "n", "k", "n", "o", "w", "n", " ", "l", "o", "c", "a", "t", "i", "o", "n">>)).v) \in Range(p)
    /\ Sub(Field(data, "weather", JStr(<<"c", "l", "e", "a", "r", " ", "s", "k", "y">>)).v) \in Range(p)
    /\ \E i \in 1..(Len(p) - 1) :
          /\ p[i] = Sub(Written(Field(data, "temperature", JInt(20))))
          /\ p[i + 1] = Lit("°C) (medium text). ")
    /\ Lit("1000x1000") \in Range(p)

\* C12: the prompt is a function of location, weather, temperature and the
\* date alone: the same three fields on the same date give the same prompt
\* whatever the settings, the key and the outcome of the provider call; and
\* every prompt names the location, the weather, the temperature followed by
\* the degree sign and C, and 1000x1000.
C12_PromptDeterministic ==
    (resp.route = "/api/generate-image" /\ "prompt" \in DOMAIN resp.body) =>
        /\ \A d \in SettingsVariants(resp.request.data), k \in Keys, out \in ProviderOutcomes :
              LET other == generate_image(d, k, resp.request.date, out)
              IN "prompt" \in DOMAIN other.body =>
                    other.body["prompt"] = resp.body["prompt"]
        /\ NamesFields(resp.body["prompt"].v, resp.request.data)

\* a prompt returned with a failure of the provider, for a body with settings
C12_Witness ==
    /\ resp.route = "/api/generate-image"
    /\ resp.status = 500
    /\ resp.calls = 1
    /\ "prompt" \in DOMAIN resp.body
    /\ DOMAIN resp.request.data.v = {"location", "weather", "temperature", "settings"}
    /\ NamesFields(resp.body["prompt"].v, resp.request.data)

\* where each output field is read from in the upstream document, and what
\* stands for it when it is missing
OutputFields ==
    {[field |-> "location", section |-> "", name |-> "name", default |-> JStr(<<"U", "n", "k", "n", "o", "w", "n">>)],
     [field |-> "country", section |-> "sys", name |-> "country", default |-> JStr(<<>>)],
     [field |-> "temperature", section |-> "main", name |-> "temp", default |-> JInt(0)],
     [field |-> "feels_like", section |-> "main", name |-> "feels_like", default |-> JInt(0)],
     [field |-> "humidity", section |-> "main", name |-> "humidity", default |-> JInt(0)],
     [field |-> "description", section |-> "weather", name |-> "description", default |-> JStr(<<>>)],
     [field |-> "icon", section |-> "weather", name |-> "icon", default |-> JStr(<<"0", "1", "d">>)],
     [field |-> "wind_speed", section |-> "wind", name |-> "speed", default |-> JInt(0)],
     [field |-> "pressure", section |-> "main", name |-> "pressure", default |-> JInt(0)]}

\* the document has no value for the output field
Missing(doc, o) ==
    IF o.section = "" THEN o.name \notin DOMAIN doc.v
    ELSE IF o.section \notin DOMAIN doc.v THEN TRUE
    ELSE IF o.section = "weather" THEN o.name \notin DOMAIN doc.v["weather"].v[1].v
    ELSE o.name \notin DOMAIN doc.v[o.section].v

C14_OnlySuccessCached ==
    resp.route = "/api/weather" =>
        /\ (resp.via = "handler" /\ resp.status \in {400, 500, 502, 504}) =>
              ~CacheHas(cache, make_cache_key(resp.request.lat, resp.request.lon), now)
        /\ resp.via = "cache" => resp.status = 200

\* the number of requests in a log
RECURSIVE Total(_)
Total(log) ==
    IF DOMAIN log = {} THEN 0
    ELSE LET d == CHOOSE x \in DOMAIN log : TRUE
         IN log[d] + Total(Restrict(log, DOMAIN log \ {d}))

\* C16: the image route is never cached: with the image key configured, the
\* provider has been called as many times as there were image requests that
\* passed rate limiting and validation.
C16_NeverCached ==
    GEMINI_API_KEY # "" =>
        generated = Total(Restrict(posted, {d \in DOMAIN posted : PassesValidation(d)}))

\* the statuses the application answers with
Statuses == {200, 400, 404, 429, 500, 502, 503, 504}

\* C17: every response, on every route and whatever its status, and a
\* response served from the cache too, carries X-Content-Type-Options:
\* nosniff, X-Frame-Options: SAMEORIGIN, X-XSS-Protection,
\* Strict-Transport-Security and Content-Security-Policy.
C17_SecurityHeaders ==
    resp.status \in Statuses =>
        /\ {"X-Content-Type-Options", "X-Frame-Options", "X-XSS-Protection",
            "Strict-Transport-Security", "Content-Security-Policy"} \subseteq DOMAIN resp.headers
        /\ resp.headers["X-Content-Type-Options"] = "nosniff"
        /\ resp.headers["X-Frame-Options"] = "SAMEORIGIN"
        /\ resp.headers["X-XSS-Protection"] # ""
        /\ resp.headers["Strict-Transport-Security"] # ""
        /\ resp.headers["Content-Security-Policy"] # ""

\* a request refused by the limiter, answered by the 429 handler
C17_Witness ==
    /\ resp.status = 429
    /\ resp.via = "limiter"
    /\ resp.headers["X-Frame-Options"] = "SAMEORIGIN"
    /\ resp.headers["Content-Type"] = "application/json"

\* the step is a request to the weather route
IsWeatherRequest ==
    /\ now' = now
    /\ resp'.route = "/api/weather"
    /\ storage' # storage \/ resp' # resp

\* C18: on the weather route the limiter comes before the cache and the
\* cache before the handler: a request of a client at its limit gets 429 with
\* no cache lookup, no validation and no upstream call, even when a response
\* is stored for its query; a request answered from the cache counts toward
\* its client's limit.
C18_MiddlewareOrder ==
    [][IsWeatherRequest =>
          LET k == LimitKey(resp'.client, "/api/weather", Limit(30, 60))
              before == LiveCount(storage, k, now)
          IN /\ before >= 30 =>
                   /\ resp'.status = 429
                   /\ resp'.via = "limiter"
                   /\ resp'.stage = "limiter"
                   /\ resp'.calls = 0
                   /\ cache' = cache
             /\ resp'.via = "cache" =>
                   /\ before < 30
                   /\ LiveCount(storage', k, now) = before + 1]_vars

\* a request refused while a response for its query is stored
C18_Witness ==
    /\ resp.route = "/api/weather"
    /\ resp.status = 429
    /\ resp.via = "limiter"
    /\ CacheHas(cache, make_cache_key(resp.request.lat, resp.request.lon), now)

\* C15: every outbound call is time-bounded, the weather upstream's and the
\* image provider's alike: a request that waits for its outbound call is
\* eventually answered, whether or not the other side ever answers.
C15_TimeBounded ==
    \A g \in Greenlets :
        (g \in DOMAIN greenlets /\ greenlets[g].phase = "waiting")
            ~> (g \in DOMAIN greenlets /\ greenlets[g].phase = "done")

\* the requests in progress or finished for a weather query
OfQuery(lat, lon) ==
    {g \in DOMAIN greenlets :
        /\ greenlets[g].route = "/api/weather"
        /\ greenlets[g].request.lat = lat
        /\ greenlets[g].request.lon = lon}

\* the weather requests that missed the cache and called upstream
Racing == {g \in DOMAIN greenlets : greenlets[g].route = "/api/weather" /\ greenlets[g].r.calls = 1}

\* C19: weather requests for one query that overlap on an empty cache race
\* without harm: each is answered with the response built from its own
\* upstream reply, none waits for another's upstream call, and once all of
\* them have finished the cache holds for the query the response of the one
\* that wrote last.
C19_CacheRace ==
    /\ \A g \in Racing :
          LET x == greenlets[g]
          IN /\ x.phase = "done"
             /\ x.r = get_weather(x.request.lat, x.request.lon, WEATHER_API_KEY, x.out)
    /\ \A g \in DOMAIN greenlets :
          (greenlets[g].route = "/api/weather" /\ greenlets[g].phase = "waiting") =>
              \A out \in GreenletReplies : ENABLED WeatherReply(g, out)
    /\ \A lat \in WeatherLats, lon \in WeatherLons :
          LET all == OfQuery(lat, lon)
              writers == {g \in all : greenlets[g].wrote > 0}
          IN ((\A g \in all : greenlets[g].phase = "done") /\ writers # {}) =>
                LET last == CHOOSE g \in writers :
                                \A h \in writers : greenlets[h].wrote <= greenlets[g].wrote
                    key == make_cache_key(lat, lon)
                IN /\ key \in DOMAIN cache
                   /\ cache[key].rv = [status |-> greenlets[last].r.status,
                                       body |-> greenlets[last].r.body]

\* two requests for one query, both sent upstream, answered with different
\* documents; the cache holds the second answer
C19_Witness ==
    /\ DOMAIN greenlets = {1, 2}
    /\ Racing = {1, 2}
    /\ greenlets[1].request = greenlets[2].request
    /\ greenlets[1].out = Reply(200, DocumentA)
    /\ greenlets[2].out = Reply(200, DocumentB)
    /\ greenlets[1].r.body # greenlets[2].r.body
    /\ greenlets[1].wrote < greenlets[2].wrote
    /\ cache[make_cache_key(greenlets[2].request.lat, greenlets[2].request.lon)].rv.body
           = greenlets[2].r.body

====
